---- MODULE Spec2Model ----
(***************************************************************************)
(* Model of the E-Waste Management web application (src/app.py).           *)
(*                                                                         *)
(* The state is the two database tables (users, pickups), the login        *)
(* session of every browser, and the response to the request handled       *)
(* last.  Every route of create_app() is one action; a step of the model   *)
(* is one HTTP request handled from dispatch to response (requests are     *)
(* handled one at a time, each write is committed before the response).    *)
(*                                                                         *)
(* A Python str is a sequence of one-character strings, so that strip()    *)
(* and lower() are computed, not assumed.                                  *)
(***************************************************************************)
EXTENDS Naturals, Sequences, FiniteSets

VARIABLES
    users,       \* table "users": sequence of rows, row i has id i
    pickups,     \* table "pickups": sequence of rows, row i has id i
    session,     \* browser -> id of the logged-in user (session["_user_id"]), or NoUser
    request,     \* the last request: route, browser, form and URL argument
    response,    \* the response to the last request
    creator,     \* history: creator[i] = session user of the request that created pickup i
    credentials  \* history: credentials[i] = password submitted when user i registered

vars == <<users, pickups, session, request, response, creator, credentials>>

----------------------------------------------------------------------------
(* Bounds of the model *)

MaxPickups == 2

Browsers == {"b1", "b2"}

NoUser == 0

----------------------------------------------------------------------------
(* Python strings *)

Whitespace == {" ", "\t"}

\* str.lower() on one character
LowerChar(c) ==
    CASE c = "A" -> "a"
      [] c = "B" -> "b"
      [] c = "R" -> "r"
      [] c = "S" -> "s"
      [] c = "X" -> "x"
      [] c = "P" -> "p"
      [] c = "C" -> "c"
      [] OTHER -> c

lower(s) == [i \in 1..Len(s) |-> LowerChar(s[i])]

RECURSIVE lstrip(_)
lstrip(s) ==
    IF s = <<>> THEN s
    ELSE IF Head(s) \in Whitespace THEN lstrip(Tail(s)) ELSE s

RECURSIVE rstrip(_)
rstrip(s) ==
    IF s = <<>> THEN s
    ELSE IF s[Len(s)] \in Whitespace THEN rstrip(SubSeq(s, 1, Len(s) - 1)) ELSE s

strip(s) == rstrip(lstrip(s))

\* (request.form.get(k) or ""): a missing field and an empty one are both ""
FormGet(form, k) == IF k \in DOMAIN form THEN form[k] ELSE <<>>

\* bool(request.form.get(k)): true iff the field is present and non-empty
FormBool(form, k) == k \in DOMAIN form /\ form[k] # <<>>

----------------------------------------------------------------------------
(* Status strings *)

Scheduled  == <<"S","c","h","e","d","u","l","e","d">>
Assigned   == <<"A","s","s","i","g","n","e","d">>
Picked     == <<"P","i","c","k","e","d">>
Processing == <<"P","r","o","c","e","s","s","i","n","g">>
Recycled   == <<"R","e","c","y","c","l","e","d">>
Cancelled  == <<"C","a","n","c","e","l","l","e","d">>

\* the options the admin page offers
StatusOptions == {Scheduled, Assigned, Picked, Processing, Recycled, Cancelled}

----------------------------------------------------------------------------
(* Inputs: the form values requests carry *)

EmailA      == <<"a","@","x">>
EmailAUpper == <<" ","A","@","X","\t">>
EmailB      == <<"b","@","x">>
EmailBUpper == <<"B","@","x"," ">>
Blank       == <<" ">>

Pw1 == <<"p","w","1">>
Pw2 == <<" ","P","w","2">>

Salts == {"s1"}

RegisterForms ==
    { [email |-> EmailAUpper, password |-> Pw1, is_admin |-> <<"o","n">>],
      [email |-> EmailA,      password |-> Pw1, is_admin |-> <<"o","n">>],
      [email |-> EmailB,      password |-> Pw2, is_admin |-> <<>>],
      [email |-> Blank,       password |-> Pw1],
      [email |-> EmailB] }

LoginForms ==
    { [email |-> EmailA,      password |-> Pw1],
      [email |-> EmailA,      password |-> Pw2],
      [email |-> EmailBUpper, password |-> Pw2],
      [email |-> EmailBUpper, password |-> lower(Pw2)],
      [password |-> Pw1] }

\* one submission: a plain, a padded, a blank, an empty and a missing field
ScheduleForms ==
    { [name |-> <<" ","A","\t">>, email |-> EmailA, address |-> Blank, item |-> <<>>] }

Bogus == <<"B","o","g","u","s">>

\* an option of the admin page, a padded value that is no option, a blank
StatusForms ==
    { [status |-> Scheduled],
      [status |-> <<" ">> \o Bogus \o <<"\t">>],
      [status |-> Blank] }

\* the identifiers a /requests/<int:pickup_id>/status URL carries
PickupIds == 1..(MaxPickups + 1)

----------------------------------------------------------------------------
(* werkzeug.security: a salted one-way hash.  The digest is an ideal hash  *)
(* of salt and password: equal digests iff equal salt and password.        *)

Digest(salt, password) == <<"scrypt", salt, password>>

\* mutant: the password is trimmed before it is hashed
generate_password_hash_trimmed(salt, password) ==
    [salt |-> salt, digest |-> Digest(salt, strip(password))]

generate_password_hash(salt, password) ==
    [salt |-> salt, digest |-> Digest(salt, password)]

\* mutant: any password passes
check_password_hash_any(pwhash, password) == pwhash.digest[1] = "scrypt"

check_password_hash(pwhash, password) ==
    pwhash.digest = Digest(pwhash.salt, password)

----------------------------------------------------------------------------
(* Requests: method and path, the browser, the form, the <int:pickup_id> *)

Request(route, b, form, pickup_id) ==
    [route |-> route, browser |-> b, form |-> form, pickup_id |-> pickup_id]

----------------------------------------------------------------------------
(* Responses *)

Response(kind, what, rows, rid, name) ==
    [kind |-> kind, what |-> what, rows |-> rows, rid |-> rid, name |-> name]

\* render_template_string(<template>) with no data
Page(template) == Response("page", template, <<>>, 0, <<>>)

\* redirect(url_for(endpoint))
Redirect(endpoint) == Response("redirect", endpoint, <<>>, 0, <<>>)

\* an exception that escapes the view: 500 Internal Server Error
ServerError == Response("error", "500", <<>>, 0, <<>>)

\* get_or_404 found no row: 404 Not Found
NotFound == Response("error", "404", <<>>, 0, <<>>)

\* login_manager.unauthorized() with login_view = "login"
Unauthorized == Redirect("login")

----------------------------------------------------------------------------
(* Queries *)

\* mutant: the lookup finds a row under every identifier
PickupIdsAny == PickupIds

\* the identifiers Pickup.query.get_or_404 finds a row under
PickupIdsInUse == {pickups[i].id : i \in 1..Len(pickups)}

\* User.query.get(id), for an id in use
UserById(id) == users[CHOOSE i \in 1..Len(users) : users[i].id = id]

\* current_user.is_authenticated: the session names a user
IsAuthenticated(b) == session[b] # NoUser

\* load_user: User.query.get(int(user_id))
CurrentUser(b) == UserById(session[b])

\* mutant: logging out clears the session of every browser
logout_user_all(b) == [c \in Browsers |-> NoUser]

\* logout_user(): the session of the requesting browser loses its user
logout_user(b) == [session EXCEPT ![b] = NoUser]

\* mutant: the anonymous user has an id attribute (None)
HasIdAnonymous(b) == TRUE

\* current_user.id is an attribute of User only: on the AnonymousUserMixin
\* of a browser that is not logged in, reading it raises AttributeError
HasId(b) == IsAuthenticated(b)

\* current_user.is_admin: likewise an attribute of User only
HasIsAdmin(b) == IsAuthenticated(b)

\* mutant: the admin flag is not looked at
IsAdminAnyone(b) == TRUE

IsAdmin(b) == CurrentUser(b).is_admin

\* mutant: the lookup by email finds nothing
UserByEmailNone(email) == NoUser

\* User.query.filter_by(email=email).first(): the id of the row, or NoUser
UserByEmail(email) ==
    IF \E i \in 1..Len(users) : users[i].email = email
    THEN users[CHOOSE i \in 1..Len(users) :
                  /\ users[i].email = email
                  /\ \A j \in 1..(i - 1) : users[j].email # email].id
    ELSE NoUser

\* .order_by(Pickup.id.desc()) of rows in ascending id order
RECURSIVE OrderByIdDesc(_)
OrderByIdDesc(rows) ==
    IF rows = <<>> THEN <<>>
    ELSE <<rows[Len(rows)]>> \o OrderByIdDesc(SubSeq(rows, 1, Len(rows) - 1))

\* mutant: the filter on the owner is dropped
FilterByUserAll(rows, uid) == rows

\* Pickup.query.filter_by(user_id=uid)
FilterByUser(rows, uid) == SelectSeq(rows, LAMBDA r : r.user_id = uid)

RECURSIVE MaxId(_)
MaxId(table) ==
    IF table = <<>> THEN 0
    ELSE LET m == MaxId(Tail(table))
         IN IF Head(table).id > m THEN Head(table).id ELSE m

\* the INTEGER PRIMARY KEY the database gives a row added to a table
NextId(table) == MaxId(table) + 1

\* mutant: the email is trimmed but not lowercased
NormalizeEmailNoLower(form) == strip(FormGet(form, "email"))

\* (request.form.get("email") or "").strip().lower()
NormalizeEmail(form) == lower(strip(FormGet(form, "email")))

\* mutant: the status is not trimmed
NewStatusRaw(form) == FormGet(form, "status")

\* (request.form.get("status") or "").strip()
NewStatus(form) == strip(FormGet(form, "status"))

----------------------------------------------------------------------------
(* Initial state: create_all() on an empty database, no browser logged in *)

Init ==
    /\ users = <<>>
    /\ pickups = <<>>
    /\ session = [b \in Browsers |-> NoUser]
    /\ request = Request("none", "b1", <<>>, 0)
    /\ response = Response("none", "", <<>>, 0, <<>>)
    /\ creator = <<>>
    /\ credentials = <<>>

db == <<users, pickups, creator, credentials>>

----------------------------------------------------------------------------
(* Routes *)

\* GET /
index(b) ==
    /\ request' = Request("GET /", b, <<>>, 0)
    /\ response' = Page("home")
    /\ UNCHANGED <<db, session>>

\* GET /centers
centers(b) ==
    /\ request' = Request("GET /centers", b, <<>>, 0)
    /\ response' = Page("centers")
    /\ UNCHANGED <<db, session>>

\* GET /schedule
schedule(b) ==
    /\ request' = Request("GET /schedule", b, <<>>, 0)
    /\ response' = Page("schedule")
    /\ UNCHANGED <<db, session>>

\* mutant: the name is stored as submitted
NewPickupUntrimmed(b, form) ==
    [id      |-> NextId(pickups),
     user_id |-> session[b],
     name    |-> FormGet(form, "name"),
     email   |-> strip(FormGet(form, "email")),
     address |-> strip(FormGet(form, "address")),
     item    |-> strip(FormGet(form, "item")),
     date    |-> strip(FormGet(form, "date")),
     status  |-> Scheduled]

\* the row schedule_post builds
NewPickup(b, form) ==
    [id      |-> NextId(pickups),
     user_id |-> session[b],
     name    |-> strip(FormGet(form, "name")),
     email   |-> strip(FormGet(form, "email")),
     address |-> strip(FormGet(form, "address")),
     item    |-> strip(FormGet(form, "item")),
     date    |-> strip(FormGet(form, "date")),
     status  |-> Scheduled]

\* POST /schedule.  @login_required is applied above @app.post, to the
\* function the route has already registered: the route runs the bare view.
schedule_post(b, form) ==
    /\ request' = Request("POST /schedule", b, form, 0)
    /\ IF ~HasId(b)
       THEN /\ response' = ServerError
            /\ UNCHANGED <<db, session>>
       ELSE /\ Len(pickups) < MaxPickups
            /\ pickups' = Append(pickups, NewPickup(b, form))
            /\ creator' = Append(creator, session[b])
            /\ response' = Response("page", "confirm", <<>>, NewPickup(b, form).id,
                                    NewPickup(b, form).name)
            /\ UNCHANGED <<users, credentials, session>>

\* GET /requests.  @login_required above @app.get: not in force.
admin_requests(b) ==
    /\ request' = Request("GET /requests", b, <<>>, 0)
    /\ response' =
          IF ~HasIsAdmin(b) THEN ServerError
          ELSE IF ~IsAdmin(b) THEN Redirect("index")
          ELSE Response("page", "admin", OrderByIdDesc(pickups), 0, <<>>)
    /\ UNCHANGED <<db, session>>

\* POST /requests/<int:pickup_id>/status.  @login_required not in force.
update_status(b, pickup_id, form) ==
    /\ request' = Request("POST /requests/id/status", b, form, pickup_id)
    /\ IF ~HasIsAdmin(b)
       THEN /\ response' = ServerError
            /\ UNCHANGED <<db, session>>
       ELSE IF ~IsAdmin(b)
       THEN /\ response' = Redirect("index")
            /\ UNCHANGED <<db, session>>
       ELSE IF pickup_id \notin PickupIdsInUse
       THEN /\ response' = NotFound
            /\ UNCHANGED <<db, session>>
       ELSE /\ pickups' =
                 IF NewStatus(form) # <<>>
                 THEN [i \in 1..Len(pickups) |->
                          IF pickups[i].id = pickup_id
                          THEN [pickups[i] EXCEPT !.status = NewStatus(form)]
                          ELSE pickups[i]]
                 ELSE pickups
            /\ response' = Redirect("admin_requests")
            /\ UNCHANGED <<users, creator, credentials, session>>

\* GET /register
register_get(b) ==
    /\ request' = Request("GET /register", b, <<>>, 0)
    /\ response' = Page("register")
    /\ UNCHANGED <<db, session>>

\* POST /register
register(b, form) ==
    /\ request' = Request("POST /register", b, form, 0)
    /\ LET email    == NormalizeEmail(form)
           password == FormGet(form, "password")
           is_admin == FormBool(form, "is_admin")
       IN  IF email = <<>> \/ password = <<>>
           THEN /\ response' = Page("register")
                /\ UNCHANGED <<db, session>>
           ELSE IF UserByEmail(email) # NoUser
           THEN /\ response' = Page("register")
                /\ UNCHANGED <<db, session>>
           ELSE \E salt \in Salts :
                LET u == [id            |-> NextId(users),
                          email         |-> email,
                          password_hash |-> generate_password_hash(salt, password),
                          is_admin      |-> is_admin]
                IN  /\ users' = Append(users, u)
                    /\ credentials' = Append(credentials, password)
                    /\ session' = [session EXCEPT ![b] = u.id]
                    /\ response' = Redirect("index")
                    /\ UNCHANGED <<pickups, creator>>

\* GET /login
login_get(b) ==
    /\ request' = Request("GET /login", b, <<>>, 0)
    /\ response' = Page("login")
    /\ UNCHANGED <<db, session>>

\* POST /login
login(b, form) ==
    /\ request' = Request("POST /login", b, form, 0)
    /\ LET email    == NormalizeEmail(form)
           password == FormGet(form, "password")
           u        == UserByEmail(email)
       IN  IF u # NoUser /\ check_password_hash(UserById(u).password_hash, password)
           THEN /\ session' = [session EXCEPT ![b] = u]
                /\ response' = Redirect("index")
                /\ UNCHANGED db
           ELSE /\ response' = Page("login")
                /\ UNCHANGED <<db, session>>

\* GET /logout, @login_required in force
logout(b) ==
    /\ request' = Request("GET /logout", b, <<>>, 0)
    /\ IF ~IsAuthenticated(b)
       THEN /\ response' = Unauthorized
            /\ UNCHANGED <<db, session>>
       ELSE /\ session' = logout_user(b)
            /\ response' = Redirect("index")
            /\ UNCHANGED db

\* GET /my-pickups, @login_required in force
my_pickups(b) ==
    /\ request' = Request("GET /my-pickups", b, <<>>, 0)
    /\ response' =
          IF ~IsAuthenticated(b) THEN Unauthorized
          ELSE Response("page", "my_pickups",
                        OrderByIdDesc(FilterByUser(pickups, CurrentUser(b).id)), 0, <<>>)
    /\ UNCHANGED <<db, session>>

----------------------------------------------------------------------------

Next ==
    \/ \E b \in Browsers : index(b)
    \/ \E b \in Browsers : centers(b)
    \/ \E b \in Browsers : schedule(b)
    \/ \E b \in Browsers, form \in ScheduleForms : schedule_post(b, form)
    \/ \E b \in Browsers : admin_requests(b)
    \/ \E b \in Browsers, pickup_id \in PickupIds, form \in StatusForms :
           update_status(b, pickup_id, form)
    \/ \E b \in Browsers : register_get(b)
    \/ \E b \in Browsers, form \in RegisterForms : register(b, form)
    \/ \E b \in Browsers : login_get(b)
    \/ \E b \in Browsers, form \in LoginForms : login(b, form)
    \/ \E b \in Browsers : logout(b)
    \/ \E b \in Browsers : my_pickups(b)

Spec == Init /\ [][Next]_vars

----------------------------------------------------------------------------
(* Vocabulary of the properties.  They read the tables and the histories   *)
(* directly and do not go through the operators of the handlers.           *)

Browser == request.browser

\* the user a browser is logged in as is an administrator
AdminSession(b) ==
    /\ session[b] # NoUser
    /\ \E i \in 1..Len(users) : users[i].id = session[b] /\ users[i].is_admin

\* the rows of a table, as a set
Rows(table) == {table[i] : i \in 1..Len(table)}

\* a row without its status
Unstatused(r) == [r EXCEPT !.status = <<>>]

\* the user whose email is the trimmed, lowercased email of a form
FoundUsers(form) ==
    {i \in 1..Len(users) : users[i].email = lower(strip(FormGet(form, "email")))}

\* the form names a user and carries the password that user registered with
CredentialsMatch(form) ==
    \E i \in FoundUsers(form) : credentials[i] = FormGet(form, "password")

----------------------------------------------------------------------------
\* C1: the listing GET /my-pickups serves to a browser logged in as user B
\* holds only pickups that a POST /schedule under B's session created.
C1_MyPickupsOnlyOwn ==
    (request.route = "GET /my-pickups" /\ response.kind = "page") =>
        \A k \in 1..Len(response.rows) :
            \E i \in 1..Len(pickups) :
                /\ pickups[i] = response.rows[k]
                /\ creator[i] = session[Browser]

C1_Witness ==
    /\ request.route = "GET /my-pickups"
    /\ response.kind = "page"
    /\ Len(response.rows) >= 1
    /\ \E i \in 1..Len(pickups) : creator[i] # session[Browser]

----------------------------------------------------------------------------
\* C2: a POST /login whose password is not the one registered by the user
\* found under the trimmed, lowercased email (or that finds no user) leaves
\* a browser that was not logged in not logged in, and re-renders the form.
C2_WrongPasswordNoSession ==
    [][ (/\ request'.route = "POST /login"
         /\ ~CredentialsMatch(request'.form)
         /\ session[request'.browser] = NoUser)
        => (/\ session'[request'.browser] = NoUser
            /\ response' = Page("login")) ]_vars

C2_Witness ==
    /\ request.route = "POST /login"
    /\ FoundUsers(request.form) # {}
    /\ ~CredentialsMatch(request.form)
    /\ session[Browser] = NoUser
    /\ response = Page("login")

----------------------------------------------------------------------------
\* C3: no two User rows have emails that are equal ignoring case and
\* surrounding whitespace.
C3_EmailsUnique ==
    \A i, j \in 1..Len(users) :
        i # j => lower(strip(users[i].email)) # lower(strip(users[j].email))

\* a registration turned down because its email equals, ignoring case and
\* padding only, the email of an existing row
C3_Witness ==
    /\ request.route = "POST /register"
    /\ response = Page("register")
    /\ FormGet(request.form, "password") # <<>>
    /\ \E i \in FoundUsers(request.form) : users[i].email # FormGet(request.form, "email")
    /\ Cardinality(FoundUsers(request.form)) = 1

----------------------------------------------------------------------------
\* the email of a form, trimmed and lowercased, is non-empty and not yet
\* the email of a User row, and the password is non-empty
FreshCredentials(form) ==
    /\ lower(strip(FormGet(form, "email"))) # <<>>
    /\ FoundUsers(form) = {}
    /\ FormGet(form, "password") # <<>>

\* the step adds one User row, with this email, and logs the browser in as it
RegistersUser(b, form) ==
    /\ Len(users') = Len(users) + 1
    /\ SubSeq(users', 1, Len(users)) = users
    /\ users'[Len(users')].email = lower(strip(FormGet(form, "email")))
    /\ users'[Len(users')].id \notin {users[i].id : i \in 1..Len(users)}
    /\ session'[b] = users'[Len(users')].id

\* C4, as stated: a POST /register with a non-empty email not yet registered
\* and a non-empty password creates one User row and logs the session in.
C4_Original ==
    [][ (/\ request'.route = "POST /register"
         /\ FormGet(request'.form, "email") # <<>>
         /\ FoundUsers(request'.form) = {}
         /\ FormGet(request'.form, "password") # <<>>)
        => RegistersUser(request'.browser, request'.form) ]_vars

\* C4, amended: a POST /register whose email is non-empty after trimming and
\* not yet registered, with a non-empty password, creates one User row and
\* logs the session in as that user; and in every later state a POST /login
\* with the same email in any letter case and the same password logs the
\* session in as that same user.
C4_RegisterThenLogin ==
    [][ /\ (request'.route = "POST /register" /\ FreshCredentials(request'.form))
            => RegistersUser(request'.browser, request'.form)
        /\ (request'.route = "POST /login" /\ CredentialsMatch(request'.form))
            => \E i \in FoundUsers(request'.form) :
                   /\ credentials[i] = FormGet(request'.form, "password")
                   /\ session'[request'.browser] = users[i].id
                   /\ users' = users ]_vars

\* a login that succeeds with an email written otherwise than it is stored
C4_Witness ==
    /\ request.route = "POST /login"
    /\ response = Redirect("index")
    /\ \E i \in FoundUsers(request.form) :
           /\ session[Browser] = users[i].id
           /\ users[i].email # FormGet(request.form, "email")
           /\ credentials[i] = FormGet(request.form, "password")

----------------------------------------------------------------------------
\* C5: a GET /requests from a requester that is no logged-in administrator
\* is answered with a redirect, never with an error or the list, and leaves
\* users, pickups and the session unchanged.
C5_NonAdminRedirected ==
    [][ (request'.route = "GET /requests" /\ ~AdminSession(request'.browser))
        => (/\ response'.kind = "redirect"
            /\ users' = users
            /\ pickups' = pickups
            /\ session' = session) ]_vars

----------------------------------------------------------------------------
\* the step is a POST /requests/{id}/status by a logged-in administrator
\* for an existing pickup
AdminUpdates ==
    /\ request'.route = "POST /requests/id/status"
    /\ AdminSession(request'.browser)
    /\ \E i \in 1..Len(pickups) : pickups[i].id = request'.pickup_id

\* the step leaves the pickups table as it is but for the status of the
\* pickup named in the request, which becomes (or stays) s
SetsStatusOnly(s) ==
    /\ Len(pickups') = Len(pickups)
    /\ \A i \in 1..Len(pickups) :
           /\ Unstatused(pickups'[i]) = Unstatused(pickups[i])
           /\ pickups'[i].status =
                  IF pickups[i].id = request'.pickup_id THEN s ELSE pickups[i].status

\* the admin listing shows every pickup with the status stored for it
ListingShowsStored ==
    (request'.route = "GET /requests" /\ response'.kind = "page")
        => /\ Len(response'.rows) = Len(pickups')
           /\ \A i \in 1..Len(pickups') :
                  \E k \in 1..Len(response'.rows) : response'.rows[k] = pickups'[i]

\* C6, as stated: with any non-empty status string s the stored status
\* afterwards is exactly s.
C6_Original ==
    [][ /\ (AdminUpdates /\ FormGet(request'.form, "status") # <<>>)
            => SetsStatusOnly(FormGet(request'.form, "status"))
        /\ ListingShowsStored ]_vars

\* C6, amended: with a status string s that is non-empty after trimming, the
\* stored status afterwards is s trimmed, in the enumeration or not; with an s
\* of whitespace only the status stays; every other field and pickup is
\* unchanged, and the admin listing shows the stored status.
C6_StatusPersistedTrimmed ==
    [][ /\ AdminUpdates =>
              LET s == strip(FormGet(request'.form, "status"))
                  old == (CHOOSE r \in Rows(pickups) : r.id = request'.pickup_id).status
              IN  SetsStatusOnly(IF s # <<>> THEN s ELSE old)
        /\ ListingShowsStored ]_vars

C6_Witness ==
    /\ request.route = "POST /requests/id/status"
    /\ AdminSession(Browser)
    /\ strip(FormGet(request.form, "status")) \notin StatusOptions \cup {<<>>}
    /\ \E r \in Rows(pickups) :
           /\ r.id = request.pickup_id
           /\ r.status = strip(FormGet(request.form, "status"))
           /\ r.status # FormGet(request.form, "status")

----------------------------------------------------------------------------
\* C7: a POST /schedule under a session logged in as U adds exactly one
\* Pickup row: owner U, status "Scheduled", the five fields the trimmed
\* submitted values, a fresh identifier that the confirmation page shows;
\* no existing row changes.
C7_ScheduleAddsOneRow ==
    [][ (request'.route = "POST /schedule" /\ session[request'.browser] # NoUser)
        => LET f == request'.form
               p == pickups'[Len(pickups')]
           IN  /\ Len(pickups') = Len(pickups) + 1
               /\ SubSeq(pickups', 1, Len(pickups)) = pickups
               /\ p.user_id = session[request'.browser]
               /\ p.status = Scheduled
               /\ p.name = strip(FormGet(f, "name"))
               /\ p.email = strip(FormGet(f, "email"))
               /\ p.address = strip(FormGet(f, "address"))
               /\ p.item = strip(FormGet(f, "item"))
               /\ p.date = strip(FormGet(f, "date"))
               /\ p.id \notin {pickups[i].id : i \in 1..Len(pickups)}
               /\ response'.kind = "page"
               /\ response'.what = "confirm"
               /\ response'.rid = p.id
               /\ users' = users ]_vars

\* a second pickup was just created from a form with padded fields
C7_Witness ==
    /\ request.route = "POST /schedule"
    /\ response.what = "confirm"
    /\ Len(pickups) >= 2
    /\ response.rid = pickups[Len(pickups)].id
    /\ pickups[Len(pickups)].name # FormGet(request.form, "name")
    /\ pickups[Len(pickups)].address = <<>>

----------------------------------------------------------------------------
\* C8: a POST /schedule from a browser that is not logged in creates no
\* Pickup row; every Pickup row's owner is non-null and is an existing User
\* row, the user the creating session was logged in as.
C8_PickupOwnerIsSessionUser ==
    /\ \A i \in 1..Len(pickups) :
           /\ pickups[i].user_id # NoUser
           /\ \E j \in 1..Len(users) : users[j].id = pickups[i].user_id
           /\ pickups[i].user_id = creator[i]
    /\ (request.route = "POST /schedule" /\ session[Browser] = NoUser)
           => response.what # "confirm"

C8_Witness ==
    /\ request.route = "POST /schedule"
    /\ session[Browser] = NoUser
    /\ response = ServerError
    /\ Len(users) >= 1

----------------------------------------------------------------------------
\* C9: every Pickup row's status is one of Scheduled, Assigned, Picked,
\* Processing, Recycled, Cancelled.
C9_StatusInEnumeration ==
    \A i \in 1..Len(pickups) : pickups[i].status \in StatusOptions

----------------------------------------------------------------------------
\* C10: the status of an existing pickup changes only in a
\* POST /requests/{id}/status step under a session logged in as an
\* administrator; no step deletes a pickup or changes its owner or its
\* other fields.
C10_OnlyAdminChangesStatus ==
    [][ /\ Len(pickups') >= Len(pickups)
        /\ \A i \in 1..Len(pickups) : Unstatused(pickups'[i]) = Unstatused(pickups[i])
        /\ (\E i \in 1..Len(pickups) : pickups'[i].status # pickups[i].status)
               => (/\ request'.route = "POST /requests/id/status"
                   /\ AdminSession(request'.browser)) ]_vars

\* a logged-in user who is no administrator posted a new status for an
\* existing pickup, which keeps its status
C10_Witness ==
    /\ request.route = "POST /requests/id/status"
    /\ session[Browser] # NoUser
    /\ ~AdminSession(Browser)
    /\ response = Redirect("index")
    /\ \E r \in Rows(pickups) :
           /\ r.id = request.pickup_id
           /\ strip(FormGet(request.form, "status")) \notin {<<>>, r.status}

----------------------------------------------------------------------------
\* C11: a POST /requests/{id}/status by a logged-in administrator with an
\* identifier of no existing pickup is answered not-found, creates no row
\* and leaves users and pickups unchanged; the admin test comes first, so
\* the same request from a logged-in non-administrator is redirected home.
C11_MissingPickupNotFound ==
    [][ (/\ request'.route = "POST /requests/id/status"
         /\ session[request'.browser] # NoUser
         /\ \A i \in 1..Len(pickups) : pickups[i].id # request'.pickup_id)
        => (/\ response' = IF AdminSession(request'.browser)
                           THEN NotFound ELSE Redirect("index")
            /\ pickups' = pickups
            /\ users' = users
            /\ session' = session) ]_vars

C11_Witness ==
    /\ request.route = "POST /requests/id/status"
    /\ AdminSession(Browser)
    /\ pickups # <<>>
    /\ \A i \in 1..Len(pickups) : pickups[i].id # request.pickup_id
    /\ strip(FormGet(request.form, "status")) # <<>>
    /\ response = NotFound

----------------------------------------------------------------------------
\* C12: a POST /register whose trimmed email is empty, whose password is
\* empty or whose trimmed, lowercased email is already registered re-renders
\* the form, creates and changes no row and leaves every session as it was.
C12_RejectedRegisterChangesNothing ==
    [][ (/\ request'.route = "POST /register"
         /\ \/ strip(FormGet(request'.form, "email")) = <<>>
            \/ FormGet(request'.form, "password") = <<>>
            \/ FoundUsers(request'.form) # {})
        => (/\ response' = Page("register")
            /\ users' = users
            /\ pickups' = pickups
            /\ session' = session) ]_vars

\* a registration without a password, from a browser logged in as a user
\* other than the one the form names, which stays logged in as it was
C12_Witness ==
    /\ request.route = "POST /register"
    /\ FormGet(request.form, "password") = <<>>
    /\ response = Page("register")
    /\ session[Browser] # NoUser
    /\ \A i \in FoundUsers(request.form) : users[i].id # session[Browser]

----------------------------------------------------------------------------
\* C13: GET /logout under a logged-in session clears that session and
\* changes no row and no other browser's session; a browser that is not
\* logged in becomes logged in only by its own POST /login or
\* POST /register, and until then its GET /my-pickups and GET /logout are
\* redirected to the login page.
C13_LogoutClearsOwnSession ==
    [][ /\ (request'.route = "GET /logout" /\ session[request'.browser] # NoUser)
            => (/\ session'[request'.browser] = NoUser
                /\ \A c \in Browsers \ {request'.browser} : session'[c] = session[c]
                /\ users' = users
                /\ pickups' = pickups)
        /\ \A c \in Browsers :
               (session[c] = NoUser /\ session'[c] # NoUser)
                   => (/\ request'.browser = c
                       /\ request'.route \in {"POST /login", "POST /register"}
                       /\ response' = Redirect("index"))
        /\ (/\ request'.route \in {"GET /my-pickups", "GET /logout"}
            /\ session[request'.browser] = NoUser)
               => (response' = Redirect("login") /\ session' = session) ]_vars

\* a logout just served, with another browser still logged in
C13_Witness ==
    /\ request.route = "GET /logout"
    /\ response = Redirect("index")
    /\ session[Browser] = NoUser
    /\ \E c \in Browsers \ {Browser} : session[c] # NoUser
    /\ pickups # <<>>

====
